---- MODULE Spec2Model ----
(***************************************************************************)
(* Model of the Wedding Newspaper backend (src/server.js) and of the       *)
(* client wizard (src/App.jsx).                                            *)
(*                                                                         *)
(* src/server.js holds two copies of the server: lines 1-179 (the webhook  *)
(* route is registered before express.json()) and lines 181-347 (the       *)
(* webhook route is registered after it, validate-code is wrapped in       *)
(* try/catch).  The variable build says which copy is deployed.            *)
(*                                                                         *)
(* Text the code inspects character by character (access codes, the        *)
(* rendering of Math.random() and Date.now()) is a tuple of one-character  *)
(* strings; text the code only passes around is a TLA+ string.             *)
(***************************************************************************)
EXTENDS Integers, Sequences, FiniteSets, TLC

VARIABLES build,      \* 1: src/server.js:1-179, 2: src/server.js:181-347
          last,       \* the request handled most recently, with its response
          inflight,   \* create-checkout-session requests awaiting the processor
          nVerified,  \* webhook deliveries that passed constructEvent
          nCompleted, \* of those, the ones of type checkout.session.completed
          nMinted,    \* calls of generateAccessCode made by the webhook handler
          prices,     \* the PRICES object of the running server
          judged,     \* history: the first validate-code reply given to each body
          ui,         \* 1: src/App.jsx:1-546, 2: src/App.jsx:548-752
          currentStep, accessCode, isValidCode, formData, isGenerating,
          generatedContent,   \* the React state of App
          pendingV,   \* fetches of /validate-code awaiting their response
          pendingG,   \* fetches of /generate-newspaper awaiting their response
          ev          \* history: the client event handled most recently

clientVars ==
  <<ui, currentStep, accessCode, isValidCode, formData, isGenerating,
    generatedContent, pendingV, pendingG, ev>>

vars ==
  <<build, last, inflight, nVerified, nCompleted, nMinted, prices, judged, clientVars>>

(***************************************************************************)
(* Bounds of the model.                                                    *)
(***************************************************************************)
MaxPad == 8          \* filler characters appended to the head of a candidate code
MaxDigits == 7       \* base-36 digits after the point in Math.random().toString(36)
MaxInFlight == 2     \* checkout requests awaiting the processor at once
MaxDeliveries == 3   \* webhook deliveries counted
MaxPendingV == 2     \* validation fetches in flight at once
MaxPendingG == 1     \* generation fetches in flight at once

Min(a, b) == IF a < b THEN a ELSE b
Max(a, b) == IF a > b THEN a ELSE b

(***************************************************************************)
(* JSON values of a request body.                                          *)
(***************************************************************************)
Undef == [t |-> "undefined", s |-> <<>>, n |-> 0]
Null == [t |-> "null", s |-> <<>>, n |-> 0]
Bool(b) == [t |-> "boolean", s |-> <<>>, n |-> IF b THEN 1 ELSE 0]
Num(k) == [t |-> "number", s |-> <<>>, n |-> k]
Str(chars) == [t |-> "string", s |-> chars, n |-> 0]
Obj == [t |-> "object", s |-> <<>>, n |-> 0]
Arr(elems) == [t |-> "array", s |-> elems, n |-> 0]

\* JavaScript's ToBoolean, as `!code` and `!PRICES[priceId]` apply it.
Truthy(v) ==
  CASE v.t = "undefined" -> FALSE
    [] v.t = "null" -> FALSE
    [] v.t = "boolean" -> v.n = 1
    [] v.t = "number" -> v.n # 0
    [] v.t = "string" -> v.s # <<>>
    [] OTHER -> TRUE

\* `const { x } = req.body`: a property the body lacks reads as undefined.
Field(body, name) == IF name \in DOMAIN body THEN body[name] ELSE Undef

(***************************************************************************)
(* POST /api/validate-code                                                 *)
(***************************************************************************)
WNDash == <<"W", "N", "-">>
MinCodeLen == 10

\* String.prototype.startsWith
startsWith(s, p) == Len(s) >= Len(p) /\ SubSeq(s, 1, Len(p)) = p

isValid_long(code) == startsWith(code, WNDash) /\ Len(code) > MinCodeLen

\* code.startsWith('WN-') && code.length >= 10
isValid(code) == startsWith(code, WNDash) /\ Len(code) >= MinCodeLen

\* The two copies answer a string that fails the format check differently.
invalidReply(b) ==
  IF b = 1
  THEN [status |-> 400, valid |-> "false", text |-> "Invalid access code format",
        code |-> Undef]
  ELSE [status |-> 200, valid |-> "false", text |-> "Invalid access code format",
        code |-> Undef]

validReply(b, code) ==
  [status |-> 200, valid |-> "true",
   text |-> IF b = 1 THEN "Access code validated successfully"
                     ELSE "Access code is valid",
   code |-> code]

\* code.startsWith on a value that is not a string throws a TypeError: copy 1
\* leaves it to Express's error handler, copy 2 catches it; both answer 500.
typeErrorReply(b) ==
  [status |-> 500, valid |-> "absent",
   text |-> IF b = 1 THEN "TypeError: code.startsWith is not a function"
                     ELSE "Internal server error",
   code |-> Undef]

validateCode(b, body) ==
  LET code == Field(body, "code") IN
  IF ~Truthy(code)
  THEN [status |-> 400, valid |-> "absent", text |-> "Access code is required",
        code |-> Undef]
  ELSE IF code.t # "string" THEN typeErrorReply(b)
  ELSE IF isValid(code.s) THEN validReply(b, code)
  ELSE invalidReply(b)

ValidateCode_singleUse(body) ==
  /\ last' = [kind |-> "validate", body |-> body,
              reply |-> IF body \in DOMAIN judged /\ judged[body].valid = "true"
                        THEN invalidReply(build) ELSE validateCode(build, body)]
  /\ UNCHANGED <<build, inflight, nVerified, nCompleted, nMinted, prices, clientVars>>

\* The handler reads req.body and nothing else.  The history variable judged is
\* left to the specification: Recorded or UNCHANGED judged.
ValidateCode(body) ==
  /\ last' = [kind |-> "validate", body |-> body, reply |-> validateCode(build, body)]
  /\ UNCHANGED <<build, inflight, nVerified, nCompleted, nMinted, prices, clientVars>>

\* Candidate codes: every head of up to three characters, then filler.
HeadAlphabet == {"W", "N", "-", "w"}
Heads == UNION {[1..k -> HeadAlphabet] : k \in 0..3}
Filler(k) == [i \in 1..k |-> "A"]
Codes == {h \o Filler(k) : h \in Heads, k \in 0..MaxPad}
CodeValues ==
  {Str(c) : c \in Codes}
    \cup {Undef, Null, Bool(FALSE), Bool(TRUE), Num(0), Num(12345), Obj, Arr(<<>>)}
ValidateBodies == {[code |-> v] : v \in CodeValues \ {Undef}} \cup {<<>>}

(***************************************************************************)
(* POST /api/create-checkout-session                                       *)
(***************************************************************************)
PRICES ==
  [basic |-> [amount |-> 1999, name |-> "Basic Package"],
   premium |-> [amount |-> 2499, name |-> "Premium Package"],
   complete |-> [amount |-> 4999, name |-> "Complete Bundle"]]

\* PRICES is an object literal: what it does not own it inherits from
\* Object.prototype.
ObjectPrototype == {"constructor", "toString", "valueOf", "hasOwnProperty", "__proto__"}

\* ToPropertyKey of the value used in PRICES[priceId].
RECURSIVE PropertyKey(_)
PropertyKey(v) ==
  CASE v.t = "string" -> v.s
    [] v.t = "undefined" -> "undefined"
    [] v.t = "null" -> "null"
    [] v.t = "boolean" -> IF v.n = 1 THEN "true" ELSE "false"
    [] v.t = "array" -> IF Len(v.s) = 1 THEN PropertyKey(v.s[1]) ELSE ""
    [] OTHER -> "[object Object]"

\* PRICES[priceId]: an own entry, an inherited member (truthy, with no amount),
\* or undefined.
Lookup(key) ==
  IF key \in DOMAIN prices
  THEN [found |-> TRUE, hasAmount |-> TRUE, amount |-> prices[key].amount,
        name |-> prices[key].name]
  ELSE IF key \in ObjectPrototype
  THEN [found |-> TRUE, hasAmount |-> FALSE, amount |-> 0,
        name |-> CASE key = "constructor" -> "Object"
                   [] key = "__proto__" -> "undefined"
                   [] OTHER -> key]
  ELSE [found |-> FALSE, hasAmount |-> FALSE, amount |-> 0, name |-> "undefined"]

createArgs_cents(priceId, price) ==
  [unit_amount |-> price.amount * 100, hasAmount |-> price.hasAmount, quantity |-> 1,
   product_name |-> price.name,
   metadata |-> [priceId |-> priceId, packageType |-> price.name]]

\* The argument of stripe.checkout.sessions.create.
createArgs(priceId, price) ==
  [unit_amount |-> price.amount, hasAmount |-> price.hasAmount, quantity |-> 1,
   product_name |-> price.name,
   metadata |-> [priceId |-> priceId, packageType |-> price.name]]

NoOutcome == [ok |-> FALSE, url |-> "", message |-> ""]
SessionUrls == {"https://checkout.stripe.com/c/pay/cs_test_a1", "https://checkout.stripe.com/c/pay/cs_test_b2"}
ProcessorErrors == {"Invalid API Key provided", "Missing required param: unit_amount"}
ProcessorOutcomes ==
  {[ok |-> TRUE, url |-> u, message |-> ""] : u \in SessionUrls}
    \cup {[ok |-> FALSE, url |-> "", message |-> m] : m \in ProcessorErrors}

invalidPriceReply == [status |-> 400, url |-> "", error |-> "Invalid price ID"]

sessionReply(outcome) == [status |-> 200, url |-> outcome.url, error |-> ""]

failureReply_leak(outcome) == [status |-> 500, url |-> "", error |-> outcome.message]

\* The catch block: the processor's error is logged, the client gets a fixed text.
failureReply(outcome) ==
  [status |-> 500, url |-> "", error |-> "Failed to create checkout session"]

Idle == [st |-> "idle"]

\* Up to the await: the price check and the call of the processor.
CheckoutBegin(slot, body) ==
  LET priceId == Field(body, "priceId")
      price == Lookup(PropertyKey(priceId))
  IN /\ inflight[slot] = Idle
     /\ IF ~price.found
        THEN /\ last' = [kind |-> "checkout", body |-> body, calls |-> <<>>,
                         outcome |-> NoOutcome, reply |-> invalidPriceReply]
             /\ UNCHANGED inflight
        ELSE /\ inflight' = [inflight EXCEPT ![slot] =
                               [st |-> "awaiting", body |-> body,
                                calls |-> <<createArgs(priceId, price)>>]]
             /\ UNCHANGED last
     /\ UNCHANGED <<build, nVerified, nCompleted, nMinted, prices, judged, clientVars>>

\* After the await: the processor's answer, or the exception it raised.
CheckoutSettle(slot, outcome) ==
  /\ inflight[slot] # Idle
  /\ last' = [kind |-> "checkout", body |-> inflight[slot].body,
              calls |-> inflight[slot].calls, outcome |-> outcome,
              reply |-> IF outcome.ok THEN sessionReply(outcome)
                                      ELSE failureReply(outcome)]
  /\ inflight' = [inflight EXCEPT ![slot] = Idle]
  /\ UNCHANGED <<build, nVerified, nCompleted, nMinted, prices, judged, clientVars>>

PriceIds ==
  {Str(k) : k \in {"basic", "premium", "complete", "gold", "Basic", "",
                   "constructor", "toString", "__proto__"}}
    \cup {Null, Arr(<<Str("basic")>>)}
CheckoutBodies == {[priceId |-> v] : v \in PriceIds} \cup {<<>>}

(***************************************************************************)
(* generateAccessCode                                                      *)
(***************************************************************************)
DecimalDigits == <<"0", "1", "2", "3", "4", "5", "6", "7", "8", "9">>

\* Number.prototype.toString() of a non-negative integer.
RECURSIVE ToDecimal(_)
ToDecimal(n) ==
  IF n < 10 THEN <<DecimalDigits[n + 1]>>
  ELSE ToDecimal(n \div 10) \o <<DecimalDigits[(n % 10) + 1]>>

\* An instant is [sec, ms]: Date.now() = 1000 * sec + ms, kept in two parts
\* because it exceeds 32 bits.
NowString(now) ==
  LET ms == ToDecimal(now.ms) IN
  IF now.sec = 0 THEN ms
  ELSE ToDecimal(now.sec) \o [i \in 1..(3 - Len(ms)) |-> "0"] \o ms

\* new Date().getFullYear(), by the mean Gregorian year of 31556952 s.
FullYear(now) == 1970 + (now.sec \div 31556952)

\* Math.random() is given by its base-36 digits after the point, the last one
\* not "0"; Number.prototype.toString(36) renders 0 as "0".
toString36(r) == IF r = <<>> THEN <<"0">> ELSE <<"0", ".">> \o r

\* String.prototype.substring(from, to), indices counted from 0.
substring(s, from, to) == SubSeq(s, Min(from, Len(s)) + 1, Min(to, Len(s)))

\* String.prototype.slice(-k)
sliceLast(s, k) == SubSeq(s, Max(1, Len(s) - k + 1), Len(s))

UpperOf(c) ==
  CASE c = "i" -> "I" [] c = "z" -> "Z" [] c = "w" -> "W" [] c = "n" -> "N"
    [] c = "a" -> "A" [] c = "b" -> "B" [] OTHER -> c
toUpperCase(s) == [i \in 1..Len(s) |-> UpperOf(s[i])]

generateAccessCode_noDash(r, now) ==
  LET prefix == <<"W", "N">>
      year == ToDecimal(FullYear(now))
      random == toUpperCase(substring(toString36(r), 2, 8))
      timestamp == sliceLast(NowString(now), 4)
  IN prefix \o year \o <<"-">> \o random \o <<"-">> \o timestamp

generateAccessCode(r, now) ==
  LET prefix == <<"W", "N">>
      year == ToDecimal(FullYear(now))
      random == toUpperCase(substring(toString36(r), 2, 8))
      timestamp == sliceLast(NowString(now), 4)
  IN prefix \o <<"-">> \o year \o <<"-">> \o random \o <<"-">> \o timestamp

Base36Sample == {"0", "i"}
Randoms ==
  {<<>>} \cup {r \in UNION {[1..k -> Base36Sample] : k \in 1..MaxDigits} : r[Len(r)] # "0"}
\* 2025-01-01T00:00:00.000Z, 2026-11-06T00:00:00.007Z, 2037-12-31T23:59:59.999Z
Instants ==
  {[sec |-> 1735689600, ms |-> 0], [sec |-> 1793923200, ms |-> 7],
   [sec |-> 2145916799, ms |-> 999]}

Generate(r, now) ==
  /\ last' = [kind |-> "generate", r |-> r, now |-> now,
              code |-> generateAccessCode(r, now)]
  /\ UNCHANGED <<build, inflight, nVerified, nCompleted, nMinted, prices, judged, clientVars>>

(***************************************************************************)
(* POST /api/webhook                                                       *)
(***************************************************************************)
\* What app.use / app.post register, in order, that a POST /api/webhook meets.
Layers(b) ==
  IF b = 1 THEN <<"cors", "webhookRoute", "json">>
  ELSE <<"cors", "json", "webhookRoute">>

\* express.json(): parses a JSON body nobody has read yet into an object.
jsonParser(req) ==
  IF req.parsed THEN req
  ELSE [req EXCEPT !.body = "object", !.parsed = TRUE, !.ran = Append(@, "json")]

\* express.raw({type: 'application/json'}): reads the body into a Buffer unless
\* a parser has already consumed it.
rawParser(req) ==
  IF req.parsed THEN req
  ELSE [req EXCEPT !.body = "buffer", !.parsed = TRUE, !.ran = Append(@, "raw")]

\* The request as it reaches the webhook route's handler.
RECURSIVE runLayers(_, _)
runLayers(layers, req) ==
  IF layers = <<>> THEN req
  ELSE CASE Head(layers) = "json" -> runLayers(Tail(layers), jsonParser(req))
         [] Head(layers) = "webhookRoute" -> rawParser(req)
         [] OTHER -> runLayers(Tail(layers), req)

IncomingWebhook == [body |-> "stream", parsed |-> FALSE, ran |-> <<>>]

\* stripe.webhooks.constructEvent: the signature is computed over the raw
\* payload, so it throws unless it is handed the bytes that were signed.
constructEvent(body, signed) == body = "buffer" /\ signed

EventTypes == {"checkout.session.completed", "payment_intent.succeeded", "charge.refunded"}

rejectWebhook_goOn(req, delivery) ==
  [verified |-> FALSE, status |-> 200, received |-> TRUE, dispatched |-> TRUE,
   minted |-> IF delivery.type = "checkout.session.completed"
              THEN <<generateAccessCode(delivery.r, delivery.now)>> ELSE <<>>,
   body |-> req.body, ran |-> req.ran]

\* The catch block: 400, and the handler returns.
rejectWebhook(req, delivery) ==
  [verified |-> FALSE, status |-> 400, received |-> FALSE, dispatched |-> FALSE,
   minted |-> <<>>, body |-> req.body, ran |-> req.ran]

dispatchEvent_all(type, r, now) == <<generateAccessCode(r, now)>>

\* switch (event.type): the codes the handler generates.
dispatchEvent(type, r, now) ==
  IF type = "checkout.session.completed" THEN <<generateAccessCode(r, now)>>
  ELSE <<>>

webhook(b, delivery) ==
  LET req == runLayers(Layers(b), IncomingWebhook) IN
  IF ~constructEvent(req.body, delivery.signed) THEN rejectWebhook(req, delivery)
  ELSE [verified |-> TRUE, status |-> 200, received |-> TRUE, dispatched |-> TRUE,
        minted |-> dispatchEvent(delivery.type, delivery.r, delivery.now),
        body |-> req.body, ran |-> req.ran]

Webhook(delivery) ==
  LET reply == webhook(build, delivery)
      completed == delivery.type = "checkout.session.completed"
  IN /\ nVerified < MaxDeliveries
     /\ last' = [kind |-> "webhook", delivery |-> delivery, reply |-> reply]
     /\ nVerified' = nVerified + (IF reply.verified THEN 1 ELSE 0)
     /\ nCompleted' = nCompleted + (IF reply.verified /\ completed THEN 1 ELSE 0)
     /\ nMinted' = nMinted + Len(reply.minted)
     /\ UNCHANGED <<build, inflight, prices, judged, clientVars>>

\* Deliveries draw Math.random() from its shortest and its longest renderings.
DeliveryRandoms == {<<>>, <<"i">>, [i \in 1..MaxDigits |-> "i"]}
Deliveries ==
  [signed : BOOLEAN, type : EventTypes, r : DeliveryRandoms, now : Instants]

(***************************************************************************)
(* The client wizard (src/App.jsx).  Both copies define the same handlers; *)
(* the second copy renders the access step only, so its detail form cannot *)
(* be edited or submitted.                                                 *)
(***************************************************************************)
RequiredFields == <<"bride", "groom", "weddingDate", "venue", "howMet">>
OptionalFields ==
  <<"proposal", "favoriteMemory", "sharedHobbies", "petNames", "futurePlans">>
FieldNames ==
  {RequiredFields[i] : i \in DOMAIN RequiredFields}
    \cup {OptionalFields[i] : i \in DOMAIN OptionalFields}

\* useState({bride: '', groom: '', ...})
EmptyForm == [f \in FieldNames |-> <<>>]

\* String.prototype.trim
Whitespace == {" "}
RECURSIVE trimStart(_)
trimStart(s) == IF s # <<>> /\ Head(s) \in Whitespace THEN trimStart(Tail(s)) ELSE s
RECURSIVE trimEnd(_)
trimEnd(s) ==
  IF s # <<>> /\ s[Len(s)] \in Whitespace THEN trimEnd(SubSeq(s, 1, Len(s) - 1)) ELSE s
trim(s) == trimEnd(trimStart(s))

missingFields_noTrim(fd) == SelectSeq(RequiredFields, LAMBDA f : fd[f] = <<>>)

\* requiredFields.filter(field => !formData[field].trim())
missingFields(fd) == SelectSeq(RequiredFields, LAMBDA f : trim(fd[f]) = <<>>)

\* The `required` attribute of the five inputs: the browser does not fire the
\* submit event while one of them is empty.
blockedByBrowser(fd) == \E i \in DOMAIN RequiredFields : fd[RequiredFields[i]] = <<>>

\* fetch(.../validate-code, {body: JSON.stringify({ accessCode })})
validationRequest(code) ==
  [host |-> "wedding-newspaper-backend.onrender.com", path |-> "/validate-code",
   body |-> [accessCode |-> Str(code)]]

\* fetch(.../generate-newspaper, {body: JSON.stringify({ ...formData, accessCode })})
generationRequest(fd, code) ==
  [host |-> "wedding-newspaper-backend.onrender.com", path |-> "/generate-newspaper",
   body |-> [f \in FieldNames \cup {"accessCode"} |->
               IF f = "accessCode" THEN Str(code) ELSE Str(fd[f])]]

\* Response.ok
ok(status) == status \in 200..299

Remove(seq, i) == SubSeq(seq, 1, i - 1) \o SubSeq(seq, i + 1, Len(seq))

Snapshot ==
  [currentStep |-> currentStep, accessCode |-> accessCode, formData |-> formData,
   isValidCode |-> isValidCode, isGenerating |-> isGenerating,
   pendingV |-> Len(pendingV), pendingG |-> Len(pendingG)]

\* onChange={(e) => setAccessCode(e.target.value.toUpperCase())}
SetAccessCode(text) ==
  /\ currentStep = "access"
  /\ accessCode' = toUpperCase(text)
  /\ ev' = [kind |-> "typed"]
  /\ UNCHANGED <<ui, currentStep, isValidCode, formData, isGenerating,
                 generatedContent, pendingV, pendingG>>
  /\ UNCHANGED <<build, last, inflight, nVerified, nCompleted, nMinted, prices, judged>>

\* handleAccessCodeSubmit up to the await.  The input is `required`, so an
\* empty code is not submitted.
handleAccessCodeSubmit ==
  /\ currentStep = "access"
  /\ accessCode # <<>>
  /\ Len(pendingV) < MaxPendingV
  /\ pendingV' = Append(pendingV, validationRequest(accessCode))
  /\ ev' = [kind |-> "codeSubmitted", before |-> Snapshot]
  /\ UNCHANGED <<ui, currentStep, accessCode, isValidCode, formData, isGenerating,
                 generatedContent, pendingG>>
  /\ UNCHANGED <<build, last, inflight, nVerified, nCompleted, nMinted, prices, judged>>

NetworkFailure == [kind |-> "failure", status |-> 0]

afterValidation_always(step, valid, outcome) ==
  [currentStep |-> "form", isValidCode |-> TRUE, alert |-> ""]

\* handleAccessCodeSubmit after the await: if (response.ok) ... else ... catch
afterValidation(step, valid, outcome) ==
  IF outcome.kind = "reply" /\ ok(outcome.reply.status)
  THEN [currentStep |-> "form", isValidCode |-> TRUE, alert |-> ""]
  ELSE [currentStep |-> step, isValidCode |-> valid,
        alert |-> IF outcome.kind = "reply"
                  THEN "Invalid access code. Please check your code and try again."
                  ELSE "Network error. Please try again."]

ValidationResponse(i, outcome) ==
  LET after == afterValidation(currentStep, isValidCode, outcome) IN
  /\ i \in DOMAIN pendingV
  /\ pendingV' = Remove(pendingV, i)
  /\ currentStep' = after.currentStep
  /\ isValidCode' = after.isValidCode
  /\ ev' = [kind |-> "validation", request |-> pendingV[i], outcome |-> outcome,
            alert |-> after.alert, before |-> Snapshot]
  /\ UNCHANGED <<ui, accessCode, formData, isGenerating, generatedContent, pendingG>>
  /\ UNCHANGED <<build, last, inflight, nVerified, nCompleted, nMinted, prices, judged>>

\* Express's answer to a path no route matches.
notFoundReply ==
  [status |-> 404, valid |-> "absent", text |-> "Cannot POST", code |-> Undef]

\* The server's answer to a POST that carries a JSON body: the validate-code
\* route is app.post('/api/validate-code', ...).
serve(b, req) ==
  IF req.path = "/api/validate-code" THEN validateCode(b, req.body) ELSE notFoundReply

\* The client posts to another host and path than the routes of src/server.js
\* and names the field accessCode; what answers it is outside the repository.
\* The answer is the network failing, the server's answer to the request as
\* sent (404), the validate-code handler's answer to the body as sent, or the
\* handler's answer about the submitted code.
ValidationOutcomes(req) ==
  {NetworkFailure}
    \cup {[kind |-> "reply", status |-> r.status, reply |-> r] :
            r \in {serve(build, req), validateCode(build, req.body),
                   validateCode(build, [code |-> req.body.accessCode])}}

\* handleInputChange: setFormData(prev => ({ ...prev, [field]: value }))
handleInputChange(field, value) ==
  /\ ui = 1
  /\ currentStep = "form"
  /\ formData' = [formData EXCEPT ![field] = value]
  /\ ev' = [kind |-> "input"]
  /\ UNCHANGED <<ui, currentStep, accessCode, isValidCode, isGenerating,
                 generatedContent, pendingV, pendingG>>
  /\ UNCHANGED <<build, last, inflight, nVerified, nCompleted, nMinted, prices, judged>>

\* handleFormSubmit up to the await.
handleFormSubmit ==
  /\ ui = 1
  /\ currentStep = "form"
  /\ Len(pendingG) < MaxPendingG
  /\ IF blockedByBrowser(formData)
     THEN /\ ev' = [kind |-> "formBlocked", before |-> Snapshot]
          /\ UNCHANGED <<currentStep, isGenerating, pendingG>>
     ELSE IF missingFields(formData) # <<>>
     THEN /\ ev' = [kind |-> "formRejected", missing |-> missingFields(formData),
                    alert |-> "Please fill in all required fields: ", before |-> Snapshot]
          /\ UNCHANGED <<currentStep, isGenerating, pendingG>>
     ELSE /\ isGenerating' = TRUE
          /\ currentStep' = "generating"
          /\ pendingG' = Append(pendingG, generationRequest(formData, accessCode))
          /\ ev' = [kind |-> "formSubmitted", before |-> Snapshot]
  /\ UNCHANGED <<ui, accessCode, isValidCode, formData, generatedContent, pendingV>>
  /\ UNCHANGED <<build, last, inflight, nVerified, nCompleted, nMinted, prices, judged>>

afterGeneration_staysGenerating(step, content, outcome) ==
  IF outcome.kind = "reply" /\ ok(outcome.status) /\ outcome.json
  THEN [currentStep |-> "complete", generatedContent |-> "result",
        isGenerating |-> FALSE, alert |-> ""]
  ELSE [currentStep |-> step, generatedContent |-> content, isGenerating |-> TRUE,
        alert |-> "Error generating newspaper. Please try again."]

\* handleFormSubmit after the await: response.ok and response.json() resolved,
\* else the catch block; finally setIsGenerating(false).
afterGeneration(step, content, outcome) ==
  IF outcome.kind = "reply" /\ ok(outcome.status) /\ outcome.json
  THEN [currentStep |-> "complete", generatedContent |-> "result",
        isGenerating |-> FALSE, alert |-> ""]
  ELSE [currentStep |-> "form", generatedContent |-> content, isGenerating |-> FALSE,
        alert |-> "Error generating newspaper. Please try again."]

GenerationResponse(i, outcome) ==
  LET after == afterGeneration(currentStep, generatedContent, outcome) IN
  /\ i \in DOMAIN pendingG
  /\ pendingG' = Remove(pendingG, i)
  /\ currentStep' = after.currentStep
  /\ generatedContent' = after.generatedContent
  /\ isGenerating' = after.isGenerating
  /\ ev' = [kind |-> "generation", request |-> pendingG[i], outcome |-> outcome,
            alert |-> after.alert, before |-> Snapshot]
  /\ UNCHANGED <<ui, accessCode, isValidCode, formData, pendingV>>
  /\ UNCHANGED <<build, last, inflight, nVerified, nCompleted, nMinted, prices, judged>>

\* The generation endpoint is not in the repository: any status, with a body
\* that response.json() reads or does not, or no response at all.
GenerationOutcomes ==
  {[kind |-> "failure", status |-> 0, json |-> FALSE]}
    \cup [kind : {"reply"}, status : {200, 201, 400, 500}, json : BOOLEAN]

\* What the user types: a code that passes the format check once upper-cased,
\* one that does not, and nothing.
TypedCodes ==
  {<<"w", "n", "-", "a", "a", "a", "a", "a", "a", "a">>, <<"a", "b">>, <<>>}
FieldTexts == {<<>>, <<" ">>, <<"A">>}

NotJudged == [status |-> 0, valid |-> "absent", text |-> "", code |-> Undef]

\* The bodies whose first reply the history variable keeps.
TrackedBodies ==
  {[code |-> Str(WNDash \o Filler(7))], [code |-> Str(WNDash \o Filler(6))], <<>>}

Init ==
  /\ build \in {1, 2}
  /\ last = [kind |-> "none"]
  /\ inflight = [i \in 1..MaxInFlight |-> Idle]
  /\ nVerified = 0
  /\ nCompleted = 0
  /\ nMinted = 0
  /\ prices = PRICES
  /\ judged = [b \in TrackedBodies |-> NotJudged]
  /\ ui \in {1, 2}
  /\ currentStep = "access"
  /\ accessCode = <<>>
  /\ isValidCode = FALSE
  /\ formData = EmptyForm
  /\ isGenerating = FALSE
  /\ generatedContent = "null"
  /\ pendingV = <<>>
  /\ pendingG = <<>>
  /\ ev = [kind |-> "none"]

NextValidate == \E body \in ValidateBodies : ValidateCode(body) /\ UNCHANGED judged

SpecValidate == Init /\ [][NextValidate]_vars

NextCheckout ==
  \/ \E slot \in 1..MaxInFlight, body \in CheckoutBodies : CheckoutBegin(slot, body)
  \/ \E slot \in 1..MaxInFlight, outcome \in ProcessorOutcomes : CheckoutSettle(slot, outcome)

SpecCheckout == Init /\ [][NextCheckout]_vars

NextGenerate == \E r \in Randoms, now \in Instants : Generate(r, now)

SpecGenerate == Init /\ [][NextGenerate]_vars

NextWebhook == \E delivery \in Deliveries : Webhook(delivery)

SpecWebhook == Init /\ [][NextWebhook]_vars

\* The history of validate-code replies.
Recorded(body) ==
  judged' = IF body \in DOMAIN judged /\ judged[body] = NotJudged
            THEN [judged EXCEPT ![body] = last'.reply] ELSE judged

BackendBodies == TrackedBodies \cup {[code |-> Num(12345)]}
BackendCheckoutBodies ==
  {[priceId |-> Str("basic")], [priceId |-> Str("gold")], [priceId |-> Str("constructor")]}
BackendDeliveries ==
  [signed : BOOLEAN, type : {"checkout.session.completed", "charge.refunded"},
   r : {<<"i">>}, now : {[sec |-> 1793923200, ms |-> 7]}]

\* The three endpoints together, requests interleaved in any order.
NextBackend ==
  \/ \E body \in BackendBodies : ValidateCode(body) /\ Recorded(body)
  \/ \E slot \in 1..MaxInFlight, body \in BackendCheckoutBodies : CheckoutBegin(slot, body)
  \/ \E slot \in 1..MaxInFlight, outcome \in ProcessorOutcomes : CheckoutSettle(slot, outcome)
  \/ \E delivery \in BackendDeliveries : Webhook(delivery)

SpecBackend == Init /\ [][NextBackend]_vars

\* The whole wizard, the user free to submit the code again while a validation
\* is in flight; only the required fields of the form are edited.
NextWizard ==
  \/ \E text \in TypedCodes : SetAccessCode(text)
  \/ handleAccessCodeSubmit
  \/ \E i \in DOMAIN pendingV :
       \E outcome \in ValidationOutcomes(pendingV[i]) : ValidationResponse(i, outcome)
  \/ \E i \in DOMAIN RequiredFields, value \in FieldTexts :
       handleInputChange(RequiredFields[i], value)
  \/ handleFormSubmit
  \/ \E i \in DOMAIN pendingG, outcome \in GenerationOutcomes :
       GenerationResponse(i, outcome)

SpecWizard == Init /\ [][NextWizard]_vars

\* The detail form with every field edited; the user enters one code and waits
\* for the answer before submitting it again.
NextForm ==
  \/ SetAccessCode(WNDash \o Filler(7))
  \/ handleAccessCodeSubmit /\ pendingV = <<>>
  \/ \E i \in DOMAIN pendingV :
       \E outcome \in ValidationOutcomes(pendingV[i]) : ValidationResponse(i, outcome)
  \/ \E i \in DOMAIN RequiredFields, value \in FieldTexts :
       handleInputChange(RequiredFields[i], value)
  \/ \E i \in DOMAIN OptionalFields, value \in {<<>>, <<"A">>} :
       handleInputChange(OptionalFields[i], value)
  \/ handleFormSubmit
  \/ \E i \in DOMAIN pendingG, outcome \in GenerationOutcomes :
       GenerationResponse(i, outcome)

SpecForm == Init /\ [][NextForm]_vars

(***************************************************************************)
(* Properties                                                              *)
(***************************************************************************)
SubmittedCode == Field(last.body, "code")
SubmittedPriceId == Field(last.body, "priceId")

HasFormat(c) == Len(c) >= 10 /\ c[1] = "W" /\ c[2] = "N" /\ c[3] = "-"

\* C1: for every candidate string the validator reports valid exactly when the
\* string starts with 'WN-' and has at least 10 characters; any other string is
\* reported invalid (no valid=true, no code echoed).
C1_ValidIffFormat ==
  (last.kind = "validate" /\ SubmittedCode.t = "string") =>
    IF HasFormat(SubmittedCode.s)
    THEN last.reply.valid = "true"
    ELSE last.reply.valid # "true" /\ last.reply.code = Undef

C1_Witness ==
  /\ last.kind = "validate"
  /\ SubmittedCode.t = "string"
  /\ Len(SubmittedCode.s) = 10
  /\ HasFormat(SubmittedCode.s)
  /\ last.reply.valid = "true"

IsTier(v) == v.t = "string" /\ v.s \in {"basic", "premium", "complete"}

\* C2: a priceId that is not basic, premium or complete (absent, or a key every
\* object inherits) is answered 400 and the processor is never called for it.
C2_UnknownPriceRejected ==
  /\ \A i \in DOMAIN inflight :
       inflight[i] # Idle => IsTier(Field(inflight[i].body, "priceId"))
  /\ (last.kind = "checkout" /\ ~IsTier(SubmittedPriceId)) =>
       (last.reply.status = 400 /\ last.calls = <<>>)

TierAmount(k) ==
  CASE k = "basic" -> 1999 [] k = "premium" -> 2499 [] k = "complete" -> 4999

CalledOnceFor(priceId, calls) ==
  /\ Len(calls) = 1
  /\ calls[1].hasAmount
  /\ calls[1].unit_amount = TierAmount(priceId.s)
  /\ calls[1].metadata.priceId = priceId

\* C3: for basic, premium and complete the processor is called exactly once,
\* with 1999, 2499 and 4999 cents and the requested key as metadata priceId,
\* and when the call succeeds the response is the processor's session URL.
C3_TierCheckout ==
  /\ \A i \in DOMAIN inflight :
       (inflight[i] # Idle /\ IsTier(Field(inflight[i].body, "priceId"))) =>
         CalledOnceFor(Field(inflight[i].body, "priceId"), inflight[i].calls)
  /\ (last.kind = "checkout" /\ IsTier(SubmittedPriceId)) =>
       /\ CalledOnceFor(SubmittedPriceId, last.calls)
       /\ last.outcome.ok =>
            (last.reply.status = 200 /\ last.reply.url = last.outcome.url
               /\ last.reply.url \in SessionUrls)

C3_Witness ==
  /\ last.kind = "checkout"
  /\ SubmittedPriceId = Str("premium")
  /\ last.outcome.ok
  /\ last.reply.status = 200
  /\ last.calls[1].unit_amount = 2499

\* C4: a webhook request whose signature verification fails is answered 400,
\* never reaches the switch on the event type and mints no access code,
\* whatever the event type in its body.
C4_BadSignatureRejected ==
  /\ (last.kind = "webhook" /\ ~last.reply.verified) =>
       /\ last.reply.status = 400
       /\ ~last.reply.dispatched
       /\ last.reply.minted = <<>>
  /\ nMinted <= nVerified

C4_Witness ==
  /\ last.kind = "webhook"
  /\ ~last.delivery.signed
  /\ last.delivery.type = "checkout.session.completed"
  /\ ~last.reply.verified
  /\ last.reply.status = 400

\* C5: over any sequence of verified deliveries the number of codes minted is
\* the number of checkout.session.completed deliveries (one each, replays
\* included, none for other types), and each verified delivery is answered
\* {received: true}.
C5_OneCodePerCompleted ==
  /\ nMinted = nCompleted
  /\ (last.kind = "webhook" /\ last.reply.verified) =>
       /\ last.reply.status = 200
       /\ last.reply.received
       /\ Len(last.reply.minted) =
            (IF last.delivery.type = "checkout.session.completed" THEN 1 ELSE 0)

C5_Witness ==
  /\ nVerified = 3
  /\ nMinted = 2
  /\ last.kind = "webhook"
  /\ last.reply.verified
  /\ last.delivery.type = "checkout.session.completed"

Digits == {"0", "1", "2", "3", "4", "5", "6", "7", "8", "9"}
Alphanumerics ==
  Digits \cup {"A", "B", "C", "D", "E", "F", "G", "H", "I", "J", "K", "L", "M",
               "N", "O", "P", "Q", "R", "S", "T", "U", "V", "W", "X", "Y", "Z"}
          \cup {"a", "b", "c", "d", "e", "f", "g", "h", "i", "j", "k", "l", "m",
                "n", "o", "p", "q", "r", "s", "t", "u", "v", "w", "x", "y", "z"}

\* WN-<4 digits>-<6 alphanumerics>-<4 digits>
HasMintedForm(c) ==
  /\ Len(c) = 19
  /\ SubSeq(c, 1, 3) = <<"W", "N", "-">>
  /\ \A i \in 4..7 : c[i] \in Digits
  /\ c[8] = "-"
  /\ \A i \in 9..14 : c[i] \in Alphanumerics
  /\ c[15] = "-"
  /\ \A i \in 16..19 : c[i] \in Digits

\* C6: every code generateAccessCode returns has the form
\* WN-<4-digit year>-<exactly 6 alphanumerics>-<exactly 4 digits>, for every
\* value of the random source and the clock.
C6_MintedForm == last.kind = "generate" => HasMintedForm(last.code)

\* C7: on the webhook route no JSON body parser runs before the raw-body
\* reader, and the signature verifier is handed the raw body.
C7_RawBodyReachesVerifier ==
  last.kind = "webhook" =>
    /\ \A i \in DOMAIN last.reply.ran : last.reply.ran[i] # "json"
    /\ last.reply.body = "buffer"

\* C8: a validate-code request with no code, an empty code or a code that is
\* not a string is answered 400 with a message, never 200 or 500.
C8_MalformedCodeIs400 ==
  (last.kind = "validate"
     /\ (SubmittedCode.t # "string" \/ SubmittedCode.s = <<>>)) =>
    /\ last.reply.status = 400
    /\ last.reply.text # ""

\* C9: validate-code answers 200 only for a code that passes the format check,
\* then with valid=true and the submitted code; a (non-empty) string that
\* fails the check is answered 400 with valid=false.
C9_Only200WhenValid ==
  last.kind = "validate" =>
    /\ last.reply.status = 200 =>
         /\ SubmittedCode.t = "string"
         /\ HasFormat(SubmittedCode.s)
         /\ last.reply.valid = "true"
         /\ last.reply.code = SubmittedCode
    /\ (SubmittedCode.t = "string" /\ SubmittedCode.s # <<>>
          /\ ~HasFormat(SubmittedCode.s)) =>
         (last.reply.status = 400 /\ last.reply.valid = "false")

\* C10: when the processor's call fails for basic, premium or complete the
\* response is 500 with the fixed text 'Failed to create checkout session', not
\* the processor's message, and the processor was called once (no retry).
C10_ProcessorFailureIsGeneric500 ==
  (last.kind = "checkout" /\ IsTier(SubmittedPriceId) /\ ~last.outcome.ok) =>
    /\ last.reply.status = 500
    /\ last.reply.error = "Failed to create checkout session"
    /\ last.reply.error # last.outcome.message
    /\ last.reply.url = ""
    /\ Len(last.calls) = 1

C10_Witness ==
  /\ last.kind = "checkout"
  /\ SubmittedPriceId = Str("basic")
  /\ ~last.outcome.ok
  /\ last.outcome.message = "Invalid API Key provided"
  /\ last.reply.status = 500

\* C11: the backend keeps no state between requests. The price table never
\* changes, and validate-code answers a given body as it answered that body the
\* first time, whatever checkouts, deliveries and validations came in between
\* and whether or not any code was ever minted.
C11_BackendStateless ==
  /\ prices = PRICES
  /\ (last.kind = "validate" /\ last.body \in DOMAIN judged) =>
       last.reply = judged[last.body]
  /\ \A b \in DOMAIN judged :
       judged[b] # NotJudged => judged[b] = validateCode(build, b)

\* A well-formed code validates again, after a delivery was verified and with a
\* checkout awaiting the processor, though no code was minted.
C11_Witness ==
  /\ last.kind = "validate"
  /\ last.body = [code |-> Str(WNDash \o Filler(7))]
  /\ last.reply.valid = "true"
  /\ judged[[code |-> Str(WNDash \o Filler(6))]] # NotJudged
  /\ nMinted = 0
  /\ nVerified > 0
  /\ \E slot \in 1..MaxInFlight : inflight[slot] # Idle

\* C18: every code generateAccessCode mints is accepted by validate-code: it
\* starts with 'WN-' and has at least ten characters.
C18_MintedCodeValidates ==
  last.kind = "generate" =>
    /\ HasFormat(last.code)
    /\ validateCode(build, [code |-> Str(last.code)]).status = 200
    /\ validateCode(build, [code |-> Str(last.code)]).valid = "true"

\* The shortest code: Math.random() gave 0, whose base-36 text has no digits
\* after the point.
C18_Witness ==
  /\ last.kind = "generate"
  /\ last.r = <<>>
  /\ Len(last.code) = 13
  /\ validateCode(build, [code |-> Str(last.code)]).valid = "true"

\* C12: submitting the form with the five required fields filled moves the
\* wizard from 'form' to 'generating'; every generation response with status
\* 200 then moves it to 'complete', every other response and every network
\* failure moves it back to 'form' with an alert; isGenerating ends false.
C12_Only200Completes ==
  /\ ev.kind = "formSubmitted" =>
       ev.before.currentStep = "form" /\ currentStep = "generating"
  /\ ev.kind = "generation" =>
       /\ ~isGenerating
       /\ (ev.outcome.kind = "reply" /\ ev.outcome.status = 200 /\ ev.outcome.json) =>
            currentStep = "complete"
       /\ (ev.outcome.kind = "failure" \/ ev.outcome.status # 200) =>
            currentStep = "form" /\ ev.alert # ""

\* C12 as the code has it: the response completes the wizard when its status is
\* in 200..299 and its body parses as JSON; any other status, an unreadable body
\* and a network failure put the wizard back to 'form' with the alert;
\* isGenerating ends false either way.
C12_OkResponseCompletes ==
  /\ ev.kind = "formSubmitted" =>
       /\ ev.before.currentStep = "form" /\ currentStep = "generating"
       /\ \A i \in DOMAIN RequiredFields :
            \E k \in DOMAIN formData[RequiredFields[i]] :
              formData[RequiredFields[i]][k] # " "
  /\ ev.kind = "generation" =>
       /\ ~isGenerating
       /\ IF /\ ev.outcome.kind = "reply"
             /\ ev.outcome.status >= 200 /\ ev.outcome.status <= 299
             /\ ev.outcome.json
          THEN currentStep = "complete" /\ ev.alert = ""
          ELSE /\ currentStep = "form"
               /\ ev.alert = "Error generating newspaper. Please try again."

\* A 201 with a JSON body completes the wizard.
C12_Witness ==
  /\ ev.kind = "generation"
  /\ ev.outcome.kind = "reply" /\ ev.outcome.status = 201 /\ ev.outcome.json
  /\ ev.before.currentStep = "generating" /\ ev.before.isGenerating
  /\ currentStep = "complete"
  /\ ~isGenerating

\* C13: client and backend agree on the validation exchange: the request the
\* wizard sends is one the backend accepts as carrying the code, a well-formed
\* code is answered as valid, and the wizard then leaves 'access'.
C13_ExchangeAgrees ==
  /\ \A i \in DOMAIN pendingV :
       LET req == pendingV[i] IN
         /\ Field(req.body, "code") = req.body.accessCode
         /\ HasFormat(req.body.accessCode.s) => serve(build, req).valid = "true"
  /\ (/\ ev.kind = "validation"
      /\ HasFormat(ev.request.body.accessCode.s)
      /\ ev.outcome.kind = "reply"
      /\ ev.outcome.reply = serve(build, ev.request)) => currentStep # "access"

\* C14: the wizard leaves 'access', and isValidCode becomes true, only on a
\* backend reply that judged the code valid; no reply for an invalid code, in
\* either of its shapes, opens the form.
C14_CodeGatesForm ==
  (/\ ev.kind = "validation"
   /\ \/ currentStep # ev.before.currentStep
      \/ isValidCode # ev.before.isValidCode) =>
    ev.outcome.kind = "reply" /\ ev.outcome.reply.valid = "true"

\* C15: whatever the interleaving, the stage moves only access -> form ->
\* generating -> complete, plus generating -> form on a failed generation; and
\* with a generation in flight or the wizard complete a validation response
\* does not move the stage.
C15_StagesInOrder ==
  ev.kind \in {"codeSubmitted", "validation", "formBlocked", "formRejected",
               "formSubmitted", "generation"} =>
    LET from == ev.before.currentStep IN
      /\ \/ currentStep = from
         \/ from = "access" /\ currentStep = "form"
         \/ from = "form" /\ currentStep = "generating"
         \/ from = "generating" /\ currentStep = "complete"
         \/ from = "generating" /\ currentStep = "form" /\ ev.kind = "generation"
      /\ (ev.kind = "validation" /\ (ev.before.pendingG > 0 \/ from = "complete")) =>
           currentStep = from

Blank(text) == \A k \in DOMAIN text : text[k] = " "

\* C16: a form submitted with a required field empty or all whitespace sends no
\* request and leaves the stage 'form', isGenerating and formData as they
\* were; a submission is refused for that reason only, never for an optional
\* field.
C16_MissingRequiredBlocks ==
  /\ ev.kind \in {"formBlocked", "formRejected"} =>
       /\ \E i \in DOMAIN RequiredFields : Blank(ev.before.formData[RequiredFields[i]])
       /\ currentStep = "form" /\ ev.before.currentStep = "form"
       /\ isGenerating = ev.before.isGenerating
       /\ formData = ev.before.formData
       /\ Len(pendingG) = ev.before.pendingG
  /\ ev.kind = "formSubmitted" =>
       /\ \A i \in DOMAIN RequiredFields : ~Blank(ev.before.formData[RequiredFields[i]])
       /\ Len(pendingG) = ev.before.pendingG + 1

\* A blank-only bride is refused by the handler though every optional field is
\* filled.
C16_Witness ==
  /\ ev.kind = "formRejected"
  /\ formData.bride = <<" ">>
  /\ \A i \in DOMAIN OptionalFields : formData[OptionalFields[i]] = <<"A">>
  /\ currentStep = "form"
  /\ ~isGenerating
  /\ pendingG = <<>>

====
